---- MODULE Spec2Model ----
(***************************************************************************)
(* JCDSSync (jamfsync.py): one JCDSSync instance mirrors the package list  *)
(* of a Jamf Pro server into a local folder.  The model follows sync()     *)
(* statement by statement, split at every point where the code talks to    *)
(* the server or to the file system, so that time can pass (and, under     *)
(* SpecRace, somebody else can touch the folder) between two steps.        *)
(*                                                                         *)
(* Entry names are sequences of characters, so that "starts with '.'" is   *)
(* computed on the name.  A folder entry is absent, a directory, or a file *)
(* identified by the md5 of its content.                                   *)
(***************************************************************************)
EXTENDS Integers, Sequences, FiniteSets, TLC

\* ------------------------------------------------------------- bounds
MaxTime == 2        \* the clock runs 0..MaxTime
MaxExpiresIn == 1   \* the server answers expires_in in 0..MaxExpiresIn
MaxPkgs == 2        \* the package list holds at most MaxPkgs records

\* ------------------------------------------------------------- values
Names == { <<"a">>, <<"b">>, <<".", "h">> }
Hashes == { "h1", "h2" }
Absent == "absent"
Dir == "dir"
Partial == "partial"
\* what the folder holds at construction; the two digests are interchangeable,
\* so one of them stands for any file found on disk
InitialContents == {Absent, Dir, "h1"}
None == "None"
Token == "tok"
NoErr == "none"
NoDl == [file_name |-> <<>>, local_path |-> <<>>]

\* package records as the list request returns them (fileName, md5)
Records == [fileName : Names, md5 : Hashes]

RECURSIVE SeqsUpTo(_, _)
SeqsUpTo(S, n) ==
    IF n = 0 THEN { <<>> }
    ELSE LET shorter == SeqsUpTo(S, n - 1)
         IN  shorter \cup { Append(s, x) : s \in { q \in shorter : Len(q) = n - 1 }, x \in S }

PackageLists == SeqsUpTo(Records, MaxPkgs)

\* the answers of POST /api/oauth/token: a failure status, a payload that
\* holds access_token but no usable expires_in, or a token with expires_in;
\* delay is the time the request takes
AuthResponses ==
    [kind : {"fail"}, expires_in : {0}, delay : {0}]
    \cup [kind : {"malformed"}, expires_in : {0}, delay : {0}]
    \cup [kind : {"ok"}, expires_in : 0..MaxExpiresIn, delay : 0..1]

VARIABLES
    now,            \* datetime.now(timezone.utc)
    access_token,   \* self.access_token
    token_expiry,   \* self.token_expiry
    local,          \* the entries of self.local_folder: name -> content
    pc,             \* where sync() stands
    err,            \* the exception that ended the cycle
    packages,       \* the list fetch_packages() returned in this cycle
    idx,            \* position of the first loop in packages
    dl,             \* the arguments of the download_file call in progress
    listing,        \* what is left of the iterdir() listing of the second loop
    \* history
    downloads,      \* names download_file was called with in this cycle
    faithful,       \* every download of this cycle wrote content with the listed md5
    deleted,        \* names unlink() removed in this cycle
    auths,          \* authentication requests sent by the last step of sync()
    bearer          \* the token of the last list / file-URI request

vars == << now, access_token, token_expiry, local, pc, err, packages, idx, dl,
           listing, downloads, faithful, deleted, auths, bearer >>

\* str.startswith('.')
startswith_dot(name) == Len(name) > 0 /\ name[1] = "."

\* {package['fileName'] for package in packages}
package_filenames(pkgs) == { pkgs[i].fileName : i \in 1..Len(pkgs) }

\* Path.exists()
exists(folder, name) == folder[name] # Absent

\* the names iterdir() yields
iterdir(folder) == { n \in Names : folder[n] # Absent }

\* a check_token that tests > instead of >=
expired_strict(t, expiry) == t > expiry

\* the test of check_token (line 40)
expired(t, expiry) == t >= expiry

\* an authenticate_jamf_api that stores the expiry and not the token
check_token_drops_token(t, tok, expiry, resp) ==
    IF ~expired(t, expiry)
    THEN [now |-> t, access_token |-> tok, token_expiry |-> expiry,
          auths |-> 0, raised |-> NoErr]
    ELSE IF resp.kind = "ok"
    THEN [now |-> t, access_token |-> tok, token_expiry |-> t + resp.expires_in,
          auths |-> 1, raised |-> NoErr]
    ELSE [now |-> t, access_token |-> tok, token_expiry |-> expiry,
          auths |-> 1, raised |-> "HTTPError"]

\* check_token followed by authenticate_jamf_api: the token state after the
\* call, the number of authentication requests sent and whether it raised
check_token(t, tok, expiry, resp) ==
    IF ~expired(t, expiry)
    THEN [now |-> t, access_token |-> tok, token_expiry |-> expiry,
          auths |-> 0, raised |-> NoErr]
    ELSE CASE resp.kind = "fail" ->
                [now |-> t, access_token |-> tok, token_expiry |-> expiry,
                 auths |-> 1, raised |-> "HTTPError"]
           [] resp.kind = "malformed" ->
                [now |-> t, access_token |-> Token, token_expiry |-> expiry,
                 auths |-> 1, raised |-> "KeyError"]
           [] OTHER ->
                LET t1 == IF t + resp.delay > MaxTime THEN MaxTime ELSE t + resp.delay
                IN  [now |-> t1, access_token |-> Token,
                     token_expiry |-> t1 + resp.expires_in,
                     auths |-> 1, raised |-> NoErr]

\* JCDSSync.__init__, with any folder content found on disk
Init ==
    /\ now = 0
    /\ access_token = None
    /\ token_expiry = 0
    /\ local \in [Names -> InitialContents]
    /\ pc = "idle"
    /\ err = NoErr
    /\ packages = <<>>
    /\ idx = 1
    /\ dl = NoDl
    /\ listing = {}
    /\ downloads = {}
    /\ faithful = TRUE
    /\ deleted = {}
    /\ auths = 0
    /\ bearer = "unsent"

\* the clock advances
Tick ==
    /\ now < MaxTime
    /\ now' = now + 1
    /\ UNCHANGED << access_token, token_expiry, local, pc, err, packages, idx, dl,
                    listing, downloads, faithful, deleted, auths, bearer >>

\* a sync() that logs a failed request and carries on
on_error_swallow(exception) == IF exception = "HTTPError" THEN "loop" ELSE "raised"

\* sync() has no try/except: an exception raised by any statement of lines
\* 69-87 leaves sync() at once
on_error(exception) == "raised"

\* main() calls sync() once (SYNC_NOW) or hands it to the scheduler, which is
\* given no max_instances and starts sync() again only when the previous run
\* has ended, normally or by an exception: line 69
StartSync ==
    /\ pc \in {"idle", "done", "raised"}
    /\ pc' = "sync"
    /\ err' = NoErr
    /\ packages' = <<>>
    /\ idx' = 1
    /\ dl' = NoDl
    /\ listing' = {}
    /\ downloads' = {}
    /\ faithful' = TRUE
    /\ deleted' = {}
    /\ auths' = 0
    /\ UNCHANGED << now, access_token, token_expiry, local, bearer >>

\* line 70: self.check_token()
CheckToken ==
    /\ pc = "sync"
    /\ \E resp \in AuthResponses :
         LET r == check_token(now, access_token, token_expiry, resp)
         IN  /\ now' = r.now
             /\ access_token' = r.access_token
             /\ token_expiry' = r.token_expiry
             /\ auths' = r.auths
             /\ err' = r.raised
             /\ pc' = IF r.raised = NoErr THEN "fetch" ELSE on_error(r.raised)
    /\ UNCHANGED << local, packages, idx, dl, listing, downloads, faithful, deleted,
                    bearer >>

\* fetch_packages (lines 44-50): check_token, then the list request
FetchPackages ==
    /\ pc = "fetch"
    /\ \E resp \in AuthResponses :
         LET r == check_token(now, access_token, token_expiry, resp)
         IN  /\ now' = r.now
             /\ access_token' = r.access_token
             /\ token_expiry' = r.token_expiry
             /\ auths' = r.auths
             /\ IF r.raised # NoErr
                THEN /\ pc' = on_error(r.raised)
                     /\ err' = r.raised
                     /\ UNCHANGED << packages, bearer >>
                ELSE /\ bearer' = r.access_token
                     /\ \/ /\ pc' = on_error("HTTPError")    \* raise_for_status
                           /\ err' = "HTTPError"
                           /\ UNCHANGED packages
                        \/ /\ pc' = "loop"
                           /\ err' = NoErr
                           /\ packages' \in PackageLists
    /\ UNCHANGED << local, idx, dl, listing, downloads, faithful, deleted >>

\* JCDSSync.md5 of an existing file: the digest of its content
md5(folder, name) == folder[name]

\* a first loop that downloads only what is missing
needs_download_absent_only(folder, package) == ~exists(folder, package.fileName)

\* a first loop that downloads only on a hash mismatch
needs_download_mismatch_only(folder, package) ==
    exists(folder, package.fileName) /\ md5(folder, package.fileName) # package.md5

\* a first loop that downloads every record
needs_download_always(folder, package) == TRUE

\* lines 76-83: the record needs a download_file call
needs_download(folder, package) ==
    \/ ~exists(folder, package.fileName)
    \/ md5(folder, package.fileName) # package.md5

\* line 74: local_file_path = self.local_folder / package['fileName'], an
\* entry of the folder named by its name
local_file_path(package) == package.fileName

\* one pass of the first loop (lines 73-83) up to the download_file call
ProcessRecord ==
    /\ pc = "loop"
    /\ idx <= Len(packages)
    /\ LET package == packages[idx]
       IN  IF local[package.fileName] = Dir
           THEN \* md5() opens a directory
                /\ pc' = on_error("IsADirectoryError")
                /\ err' = "IsADirectoryError"
                /\ UNCHANGED << idx, dl, downloads >>
           ELSE IF needs_download(local, package)
           THEN /\ pc' = "dl"
                /\ dl' = [file_name |-> package.fileName,
                          local_path |-> local_file_path(package)]
                /\ downloads' = downloads \cup {package.fileName}
                /\ UNCHANGED << idx, err >>
           ELSE /\ idx' = idx + 1
                /\ UNCHANGED << pc, err, dl, downloads >>
    /\ auths' = 0
    /\ UNCHANGED << now, access_token, token_expiry, local, packages, listing,
                    faithful, deleted, bearer >>

\* download_file (lines 52-66): check_token, the file-URI request, the
\* download request, then the streamed write over local_path
DownloadFile ==
    /\ pc = "dl"
    /\ \E resp \in AuthResponses :
         LET r == check_token(now, access_token, token_expiry, resp)
         IN  /\ now' = r.now
             /\ access_token' = r.access_token
             /\ token_expiry' = r.token_expiry
             /\ auths' = r.auths
             /\ IF r.raised # NoErr
                THEN /\ pc' = on_error(r.raised)
                     /\ err' = r.raised
                     /\ UNCHANGED << local, idx, dl, faithful, bearer >>
                ELSE /\ bearer' = r.access_token
                     /\ \/ /\ pc' = on_error("HTTPError")    \* a request fails
                           /\ err' = "HTTPError"
                           /\ UNCHANGED << local, idx, dl, faithful >>
                        \/ /\ pc' = on_error("ConnectionError")   \* the stream breaks
                           /\ err' = "ConnectionError"
                           /\ local' = [local EXCEPT ![dl.local_path] = Partial]
                           /\ UNCHANGED << idx, dl, faithful >>
                        \/ \E content \in Hashes :
                              /\ pc' = "loop"
                              /\ err' = NoErr
                              /\ local' = [local EXCEPT ![dl.local_path] = content]
                              /\ faithful' = (faithful /\ content = packages[idx].md5)
                              /\ idx' = idx + 1
                              /\ dl' = NoDl
    /\ UNCHANGED << packages, listing, downloads, deleted >>

\* line 84: the first loop is over, iterdir() lists the folder
ListFolder ==
    /\ pc = "loop"
    /\ idx > Len(packages)
    /\ pc' = "prune"
    /\ listing' = iterdir(local)
    /\ auths' = 0
    /\ UNCHANGED << now, access_token, token_expiry, local, err, packages, idx, dl,
                    downloads, faithful, deleted, bearer >>

\* a second loop that forgets the hidden-file test
outdated_ignores_hidden(name, filenames) == name \notin filenames

\* a second loop that forgets the list
outdated_ignores_list(name, filenames) == ~startswith_dot(name)

\* line 85: the entry is to be deleted
outdated(name, filenames) == name \notin filenames /\ ~startswith_dot(name)

\* one pass of the second loop (lines 84-87), in whatever order iterdir yields
Prune ==
    /\ pc = "prune"
    /\ \E existing_file \in listing :
         /\ listing' = listing \ {existing_file}
         /\ IF ~outdated(existing_file, package_filenames(packages))
            THEN UNCHANGED << pc, err, local, deleted >>
            ELSE CASE local[existing_file] = Absent ->
                        /\ pc' = on_error("FileNotFoundError")
                        /\ err' = "FileNotFoundError"
                        /\ UNCHANGED << local, deleted >>
                   [] local[existing_file] = Dir ->
                        /\ pc' = on_error("IsADirectoryError")
                        /\ err' = "IsADirectoryError"
                        /\ UNCHANGED << local, deleted >>
                   [] OTHER ->
                        /\ local' = [local EXCEPT ![existing_file] = Absent]
                        /\ deleted' = deleted \cup {existing_file}
                        /\ UNCHANGED << pc, err >>
    /\ auths' = 0
    /\ UNCHANGED << now, access_token, token_expiry, packages, idx, dl,
                    downloads, faithful, bearer >>

\* sync() returns
Return ==
    /\ pc = "prune"
    /\ listing = {}
    /\ pc' = "done"
    /\ auths' = 0
    /\ UNCHANGED << now, access_token, token_expiry, local, err, packages, idx, dl,
                    listing, downloads, faithful, deleted, bearer >>

\* somebody else removes a listed file before the second loop reaches it
Vanish ==
    /\ pc = "prune"
    /\ \E name \in listing :
         /\ local[name] \notin {Absent, Dir}
         /\ local' = [local EXCEPT ![name] = Absent]
    /\ auths' = 0
    /\ UNCHANGED << now, access_token, token_expiry, pc, err, packages, idx, dl,
                    listing, downloads, faithful, deleted, bearer >>

Next ==
    \/ Tick
    \/ StartSync
    \/ CheckToken
    \/ FetchPackages
    \/ ProcessRecord
    \/ DownloadFile
    \/ ListFolder
    \/ Prune
    \/ Return

Spec == Init /\ [][Next]_vars

NextRace == Next \/ Vanish

SpecRace == Init /\ [][NextRace]_vars

\* ------------------------------------------------------------- claims

\* the names of the folder's entries that do not start with '.'
non_hidden_entries(folder) == { n \in Names : exists(folder, n) /\ ~startswith_dot(n) }

\* C1 as stated: after a sync() that returned, the non-hidden entry names of
\* the folder are exactly the fileNames of the list fetched in that cycle.
C1_Original ==
    pc = "done" => non_hidden_entries(local) = package_filenames(packages)

\* C1 amended: after a sync() that returned, the non-hidden entry names of
\* the folder are exactly the fileNames of the list that do not start with
\* '.' (a listed name that starts with '.' is downloaded, and is a hidden entry).
C1_NonHiddenEqualsRemote ==
    pc = "done" =>
        non_hidden_entries(local)
            = { f \in package_filenames(packages) : ~startswith_dot(f) }

\* a cycle that returned after downloading, deleting, and mirroring a list
\* that names a hidden and a non-hidden file
C1_Witness ==
    /\ pc = "done"
    /\ downloads # {}
    /\ deleted # {}
    /\ \E f, g \in package_filenames(packages) : startswith_dot(f) /\ ~startswith_dot(g)

\* records that share a fileName report the same md5
consistent(pkgs) ==
    \A i, j \in 1..Len(pkgs) : pkgs[i].fileName = pkgs[j].fileName => pkgs[i].md5 = pkgs[j].md5

\* C2 as stated: after a sync() that returned, every listed file's local hash
\* equals the md5 of its record.
C2_Original ==
    pc = "done" =>
        \A i \in 1..Len(packages) : md5(local, packages[i].fileName) = packages[i].md5

\* C2 amended: after a sync() that returned, a listed file's local hash equals
\* the md5 of its record when no download of that fileName was issued in the
\* cycle, or when every download of the cycle delivered content with the md5
\* of the record being processed and records sharing a fileName agree on md5.
C2_HashesMatch ==
    pc = "done" =>
        \A i \in 1..Len(packages) :
            (packages[i].fileName \notin downloads \/ (faithful /\ consistent(packages)))
                => md5(local, packages[i].fileName) = packages[i].md5

\* a cycle that returned with one listed file kept and another downloaded
C2_Witness ==
    /\ pc = "done"
    /\ faithful
    /\ \E i, j \in 1..Len(packages) :
          /\ packages[i].fileName \in downloads
          /\ packages[j].fileName \notin downloads

\* a step of sync() that runs check_token: line 70, fetch_packages, download_file
is_check_token_step == pc \in {"sync", "fetch", "dl"} /\ pc' # pc

\* C3: a check_token call made before the expiry of the token sends no
\* authentication request and keeps token and expiry; a call made at or after
\* the expiry sends exactly one; no other step sends one or touches the token.
C3_TokenReuse ==
    [][ IF is_check_token_step
        THEN /\ auths' = (IF now >= token_expiry THEN 1 ELSE 0)
             /\ auths' = 0 => UNCHANGED << access_token, token_expiry >>
        ELSE /\ auths' \in {0, auths}
             /\ UNCHANGED << access_token, token_expiry >> ]_vars

\* fetch_packages has just reused, before its expiry, the token that an
\* earlier call obtained
C3_Witness ==
    /\ pc = "loop"
    /\ idx = 1
    /\ auths = 0
    /\ access_token = Token
    /\ now > 0
    /\ now < token_expiry

\* C4: a listed entry that no longer exists when the second loop reaches it
\* does not end the cycle with an error.
C4_VanishTolerated == ~(pc = "raised" /\ err = "FileNotFoundError")

C6_DownloadExactlyWhenNeeded ==
    [][ /\ (pc = "loop" /\ idx <= Len(packages) /\ (pc' = "dl" \/ idx' = idx + 1))
            => ( pc' = "dl"
                   <=> ( local[packages[idx].fileName] = Absent
                         \/ local[packages[idx].fileName] # packages[idx].md5 ) )
        /\ (pc' = "dl" /\ pc # "dl")
            => /\ pc = "loop" /\ idx <= Len(packages)
               /\ dl' = [file_name |-> packages[idx].fileName,
                         local_path |-> packages[idx].fileName]
               /\ downloads' = downloads \cup {packages[idx].fileName}
        /\ pc' # "dl" => downloads' \in {downloads, {}}
        /\ (pc = "dl" /\ local' # local)
            => \A n \in Names : n # dl.local_path => local'[n] = local[n]
        /\ downloads' \subseteq package_filenames(packages') ]_vars

\* download_file has been called for the second record, whose file exists
\* with another hash, after the first record was passed
C6_Witness ==
    /\ pc = "dl"
    /\ idx = 2
    /\ exists(local, dl.file_name)
    /\ packages[1].fileName \notin downloads

\* the folder matches the list: every listed file is there with the listed
\* md5, and every other entry is hidden
matching(folder, pkgs) ==
    /\ \A i \in 1..Len(pkgs) : folder[pkgs[i].fileName] = pkgs[i].md5
    /\ \A n \in Names :
          exists(folder, n) => n \in package_filenames(pkgs) \/ startswith_dot(n)

\* C7: from the moment the list is fetched, a cycle whose folder matches the
\* list calls download_file for nothing, deletes nothing and leaves every
\* entry as it is.
C7_MatchingIsNoOp ==
    [][ ( /\ pc \in {"loop", "dl", "prune"}
          /\ matching(local, packages)
          /\ downloads = {}
          /\ deleted = {} )
        => ( /\ local' = local
             /\ downloads' = {}
             /\ deleted' = {}
             /\ pc' \in {"loop", "prune", "done"} ) ]_vars

\* a cycle over a two-record list and a matching folder has returned
C7_Witness ==
    /\ pc = "done"
    /\ Len(packages) = 2
    /\ packages[1].fileName # packages[2].fileName
    /\ matching(local, packages)
    /\ downloads = {}
    /\ deleted = {}

\* C8: a failed authentication, list or download request ends the cycle
\* there: nothing has been deleted, the second loop starts only when the
\* first has passed every record, and after the failure the instance does
\* nothing until sync() is called again, which starts at the token check
\* without a list.
C8_FailureAborts ==
    [][ /\ err' # NoErr => pc' = "raised"
        /\ (pc' = "raised" /\ pc # "raised" /\ pc \in {"sync", "fetch", "dl"})
            => /\ deleted' = {} /\ listing' = {}
               /\ downloads' = downloads /\ idx' = idx
               /\ \A n \in Names : exists(local, n) => exists(local', n)
        /\ (pc' = "prune" /\ pc # "prune") => idx > Len(packages)
        /\ pc = "raised"
            => \/ /\ pc' = "raised"
                  /\ UNCHANGED << access_token, token_expiry, local, err, packages,
                                  idx, dl, listing, downloads, deleted, auths, bearer >>
               \/ /\ pc' = "sync"
                  /\ packages' = <<>> /\ idx' = 1 /\ downloads' = {} /\ deleted' = {}
                  /\ UNCHANGED << access_token, token_expiry, local, bearer >> ]_vars

\* a download request failed with a record still to process and an outdated
\* entry still in the folder
C8_Witness ==
    /\ pc = "raised"
    /\ err = "HTTPError"
    /\ downloads # {}
    /\ idx < Len(packages)
    /\ \E n \in Names : exists(local, n) /\ ~startswith_dot(n)
                           /\ n \notin package_filenames(packages)

\* C10: every list or file-URI request carries a token that authenticate set.
C10_BearerIsIssuedToken == bearer \in {"unsent", Token}

\* the list request of the first cycle has been sent with the token
C10_Witness ==
    /\ bearer = Token
    /\ pc = "loop"
    /\ now = 0
====
